---- MODULE Spec2Model ----
(***************************************************************************)
(* Model of the download/convert backend (backend/main.py,                 *)
(* backend/downloader.py).                                                  *)
(*                                                                         *)
(* The server is a single asyncio event loop: the code of a coroutine      *)
(* between two awaits runs without interleaving.  One action of the model  *)
(* is therefore one resumption of a coroutine: it starts where an await    *)
(* returns (or raises) and runs to the next await, through every handler   *)
(* the exception or the return value passes on the way.  The calls that    *)
(* are awaited (run_in_executor of _extract, _download, _convert,          *)
(* _validate) are the external capabilities; their results are the inputs  *)
(* of the actions.                                                         *)
(*                                                                         *)
(* Texts (exception messages, task messages) are modelled by a template    *)
(* name plus the raw text embedded in it; the substring tests of the code  *)
(* are decided by Contains from the phrases the template and the raw text  *)
(* hold.                                                                   *)
(***************************************************************************)
EXTENDS Integers, FiniteSets, Sequences, TLC

\* ------------------------------------------------------------------ bounds
MaxTasks == 1
MaxSize == 1
\* the greatest size of a candidate file in the specification of download_video
MaxCandidateSize == 2
\* the greatest number of lines of cookies.txt in the specification of
\* validate_cookies_file
MaxLines == 2

TaskIds == 1..MaxTasks
\* candidate files temp/{task_id}_temp.{ext} written by the download capability
Exts == {"mp4", "webm"}
Absent == -1
Sizes == 0..MaxSize
FileStates == {Absent} \cup Sizes
EmptyDir == [e \in Exts |-> Absent]
NoFile == "none"
\* main.py:48: the rename hint of a request is null (NoRename) or a string; a
\* string is identified by the number n of the file name "{n}.mkv" it would
\* give: that of a task id, or another
NoRename == 0
RenameHints == {NoRename} \cup TaskIds \cup {MaxTasks + 1}

\* ------------------------------------------------------------------ texts
\* Texts of the errors the extract/download capability (yt-dlp) raises as
\* DownloadError, one representative per combination of phrases the code
\* tests, and the text of any other exception.
RawDownloadErrors ==
    {"bot_check", "sign_in_age", "private", "unavailable", "removed",
     "http403", "http404", "http429", "plain", "robot",
     "unavailable_rate_limited", "conn_max_retries"}
RawExceptions == {"net_error"}
\* stderr of the last encoder run
RawStderr == {"stderr", "stderr_hevc_encoder", "unknown_conversion_error"}

RawPhrases(raw) ==
    CASE raw = "bot_check"   -> {"sign in to confirm", "not a bot", "bot"}
      [] raw = "sign_in_age" -> {"sign in to confirm"}
      [] raw = "private"     -> {"private video"}
      [] raw = "unavailable" -> {"video unavailable"}
      [] raw = "removed"     -> {"removed by the user"}
      [] raw = "http403"     -> {"http error 403"}
      [] raw = "http404"     -> {"http error 404"}
      [] raw = "http429"     -> {"http error 429"}
      [] raw = "robot"       -> {"bot"}
      [] raw = "unavailable_rate_limited" -> {"video unavailable", "rate limited"}
      \* a connection error of the HTTP library, "...: Max retries exceeded with url: ..."
      [] raw = "conn_max_retries" -> {"max retries exceeded"}
      [] raw = "stderr_hevc_encoder" -> {"hevc encoder"}
      [] OTHER               -> {}

\* The phrases (lower case) that the fixed part of each exception text holds.
TplPhrases(tpl) ==
    CASE tpl = "video_access_blocked"      -> {"video access blocked", "blocked"}
      [] tpl = "access_forbidden_extract"  -> {"access forbidden"}
      [] tpl = "video_not_found_extract"   -> {"video not found"}
      [] tpl = "rate_limited"              -> {"rate limited"}
      [] tpl = "max_retries_exceeded"      -> {"max retries exceeded"}
      [] tpl = "youtube_is_blocking"       -> {"youtube is blocking"}
      [] tpl = "access_forbidden_download" -> {"access forbidden"}
      [] tpl = "video_not_found_download"  -> {"video not found"}
      [] tpl = "private_video_download"    -> {"private video"}
      [] OTHER                             -> {}

Msg(tpl, raw) == [tpl |-> tpl, raw |-> raw]
NoMsg == Msg("", "")

\* `phrase in str(e).lower()`
Contains(m, phrase) == phrase \in (TplPhrases(m.tpl) \cup RawPhrases(m.raw))


\* ------------------------------------------------------------------ state
VARIABLES
    tasks,            \* main.tasks: task id -> record, NoTask when not in the table
    pc,               \* where the background job of each task is suspended
    retry_count,      \* local of extract_info / download_video
    strategy,         \* index of the strategy extract_info_with_fallback is trying
    last_error,       \* local of extract_info_with_fallback
    error_msg,        \* text of the error of the latest failed attempt
    temp,             \* temp/{task_id}_temp.{ext}: size, or Absent
    downloads,        \* downloads/{task_id}.mkv: size, or Absent
    temp_file,        \* local of download_video_task: ext of the file download_video returned
    calls,            \* calls made to the capability by the running component call
    log,              \* history: the capability calls that returned, with their
                      \* results; kept only by the component specifications below
    \* the variables below are kept only by PairSpec and CookieSpec
    failed_attempts,  \* VideoDownloader.failed_attempts of the downloader of each job
    detected_browsers,\* VideoDownloader.detected_browsers is not empty
    cookies_file,     \* the file cookies.txt
    ydl_opts,         \* the cookie options of the latest get_ydl_opts of each job
    loop,             \* the job whose coroutine keeps the event loop thread in
                      \* time.sleep, 0 when the event loop is running
    rename            \* the argument rename of download_video_task of each job,
                      \* request.rename; null except in LiveSpec

instance == <<failed_attempts, detected_browsers, cookies_file, ydl_opts, loop,
              rename>>

vars == <<tasks, pc, retry_count, strategy, last_error,
          error_msg, temp, downloads, temp_file, calls, log, instance>>

TaskMsg(tpl, err) == [tpl |-> tpl, err |-> err]
NoInfo == "none"
NoTask == [status |-> "absent", progress |-> "", message |-> TaskMsg("", NoMsg),
           videoInfo |-> NoInfo, filename |-> 0]

\* the task messages that start with the error marker
CrossTemplates ==
    {"x_blocking_access", "x_access_forbidden", "x_video_not_found",
     "x_multiple_attempts_failed", "x_extraction_failed",
     "x_blocking_download", "x_download_forbidden", "x_not_found_during_download",
     "x_private_video", "x_download_failed_after_attempts", "x_download_failed",
     "x_conversion_failed", "x_error"}
StartsWithCross(m) == m.tpl \in CrossTemplates

\* downloader.py:14: cookies.txt as a file: absent, unreadable, or its lines,
\* each line the sequence of its tab-separated fields
AbsentFile == [state |-> "absent", lines |-> << >>]
\* downloader.py:193, 210: neither cookiesfrombrowser nor cookiefile is set
NoCookies == [cookiesfrombrowser |-> FALSE, cookiefile |-> FALSE]

\* the values of the variables of PairSpec and CookieSpec elsewhere
InstanceInit ==
    /\ failed_attempts = [t \in TaskIds |-> 0]
    /\ detected_browsers = FALSE
    /\ cookies_file = AbsentFile
    /\ ydl_opts = [t \in TaskIds |-> NoCookies]
    /\ loop = 0

\* All the state of one task and its job, as one record: the handlers below
\* are functions from this record to this record.
Local(t) ==
    [id |-> t, task |-> tasks[t], pc |-> pc[t], retry_count |-> retry_count[t],
     strategy |-> strategy[t],
     last_error |-> last_error[t], error_msg |-> error_msg[t], temp |-> temp[t],
     out |-> downloads[t], temp_file |-> temp_file[t], calls |-> calls[t],
     rename |-> rename[t]]

CommitSharedTemp(t, s) ==
    /\ tasks' = [tasks EXCEPT ![t] = s.task]
    /\ pc' = [pc EXCEPT ![t] = s.pc]
    /\ retry_count' = [retry_count EXCEPT ![t] = s.retry_count]
    /\ strategy' = [strategy EXCEPT ![t] = s.strategy]
    /\ last_error' = [last_error EXCEPT ![t] = s.last_error]
    /\ error_msg' = [error_msg EXCEPT ![t] = s.error_msg]
    /\ temp' = [u \in DOMAIN temp |-> s.temp]
    /\ downloads' = [downloads EXCEPT ![t] = s.out]
    /\ temp_file' = [temp_file EXCEPT ![t] = s.temp_file]
    /\ calls' = [calls EXCEPT ![t] = s.calls]

\* The job of task t writes tasks[task_id] and the files temp/{task_id}_temp.*
\* and downloads/{task_id}.mkv of its own id; its locals are its own.
Commit(t, s) ==
    /\ tasks' = [tasks EXCEPT ![t] = s.task]
    /\ pc' = [pc EXCEPT ![t] = s.pc]
    /\ retry_count' = [retry_count EXCEPT ![t] = s.retry_count]
    /\ strategy' = [strategy EXCEPT ![t] = s.strategy]
    /\ last_error' = [last_error EXCEPT ![t] = s.last_error]
    /\ error_msg' = [error_msg EXCEPT ![t] = s.error_msg]
    /\ temp' = [temp EXCEPT ![t] = s.temp]
    /\ downloads' = [downloads EXCEPT ![t] = s.out]
    /\ temp_file' = [temp_file EXCEPT ![t] = s.temp_file]
    /\ calls' = [calls EXCEPT ![t] = s.calls]

Init ==
    /\ tasks = [t \in TaskIds |-> NoTask]
    /\ pc = [t \in TaskIds |-> "none"]
    /\ retry_count = [t \in TaskIds |-> 0]
    /\ strategy = [t \in TaskIds |-> 0]
    /\ last_error = [t \in TaskIds |-> NoMsg]
    /\ error_msg = [t \in TaskIds |-> NoMsg]
    /\ temp = [t \in TaskIds |-> EmptyDir]
    /\ downloads = [t \in TaskIds |-> Absent]
    /\ temp_file = [t \in TaskIds |-> NoFile]
    /\ calls = [t \in TaskIds |-> 0]
    /\ log = << >>
    /\ InstanceInit
    /\ rename = [t \in TaskIds |-> NoRename]

\* ------------------------------------------------- download_video_task
\* A KeyError (the task is no longer in the table) raised by a write to
\* tasks[task_id] passes through the handlers, each of which touches
\* tasks[task_id] first and raises KeyError again, and leaves the job.
JobOverRequeued(s, how) ==
    [s EXCEPT !.pc = IF how = "done" THEN "queued" ELSE how, !.strategy = 0,
              !.last_error = NoMsg, !.temp_file = NoFile]

\* The job is over: its locals are gone.
JobOver(s, how) ==
    [s EXCEPT !.pc = how, !.strategy = 0,
              !.last_error = NoMsg, !.temp_file = NoFile]

Crash(s) == [JobOver(s, "crashed") EXCEPT !.retry_count = 0, !.calls = 0]

OuterPurgeSkipped(dir) == dir

\* main.py:483-488
OuterPurge(dir) == EmptyDir

OuterExceptSilent(s, e) ==
    IF s.task = NoTask THEN Crash(s)
    ELSE [JobOver(s, "done") EXCEPT !.temp = OuterPurge(s.temp)]

OuterExceptKeepsMessage(s, e) ==
    IF s.task = NoTask THEN Crash(s)
    ELSE [JobOver(s, "done") EXCEPT !.task.status = "error",
                                    !.temp = OuterPurge(s.temp)]

\* main.py:475-488, the handler around the whole job
OuterExcept(s, e) ==
    IF s.task = NoTask THEN Crash(s)
    ELSE LET marked ==
                 IF s.task.status # "error"
                 THEN [s.task EXCEPT
                          !.status = "error",
                          !.message = IF StartsWithCross(s.task.message)
                                      THEN s.task.message
                                      ELSE TaskMsg("x_error", e)]
                 ELSE s.task
         IN [JobOver(s, "done") EXCEPT !.task = marked, !.temp = OuterPurge(s.temp)]

\* main.py:390-400
ExtractionErrorMessage(e) ==
    IF Contains(e, "video access blocked") \/ Contains(e, "bot")
    THEN TaskMsg("x_blocking_access", NoMsg)
    ELSE IF Contains(e, "access forbidden") THEN TaskMsg("x_access_forbidden", NoMsg)
    ELSE IF Contains(e, "video not found") THEN TaskMsg("x_video_not_found", NoMsg)
    ELSE IF Contains(e, "max retries exceeded")
         THEN TaskMsg("x_multiple_attempts_failed", NoMsg)
    ELSE TaskMsg("x_extraction_failed", e)

ExtractionFailedRerun(s, e) ==
    IF s.task = NoTask THEN Crash(s)
    ELSE [s EXCEPT !.pc = "extract", !.retry_count = 0, !.calls = 1,
                   !.error_msg = NoMsg]

\* main.py:389-403
ExtractionFailed(s, e) ==
    IF s.task = NoTask THEN Crash(s)
    ELSE OuterExcept([s EXCEPT !.task.message = ExtractionErrorMessage(e),
                               !.task.status = "error"], e)

\* main.py:422-434
DownloadErrorMessage(e) ==
    IF Contains(e, "youtube is blocking") \/ Contains(e, "bot")
    THEN TaskMsg("x_blocking_download", NoMsg)
    ELSE IF Contains(e, "access forbidden") THEN TaskMsg("x_download_forbidden", NoMsg)
    ELSE IF Contains(e, "video not found")
         THEN TaskMsg("x_not_found_during_download", NoMsg)
    ELSE IF Contains(e, "private video") THEN TaskMsg("x_private_video", NoMsg)
    ELSE IF Contains(e, "max retries exceeded")
         THEN TaskMsg("x_download_failed_after_attempts", NoMsg)
    ELSE TaskMsg("x_download_failed", e)

\* main.py:421-437
DownloadFailed(s, e) ==
    IF s.task = NoTask THEN Crash(s)
    ELSE OuterExcept([s EXCEPT !.task.message = DownloadErrorMessage(e),
                               !.task.status = "error"], e)

\* ------------------------------------------------------ capability results
\* What one call of ydl.extract_info can do: return metadata, return nothing,
\* raise DownloadError with some text, raise something else.
ExtractOutcomes ==
    {[kind |-> "info", raw |-> ""], [kind |-> "empty", raw |-> ""]}
    \cup [kind : {"dlerror"}, raw : RawDownloadErrors]
    \cup [kind : {"exception"}, raw : RawExceptions]

\* What one call of ydl.download can do: return, or raise as above.
DownloadOutcomes ==
    {[kind |-> "ok", raw |-> ""]}
    \cup [kind : {"dlerror"}, raw : RawDownloadErrors]
    \cup [kind : {"exception"}, raw : RawExceptions]

\* ------------------------------------------------------------ download_video
\* downloader.py:290
DownloadMaxRetries == 3

PurgeCandidatesSkipped(dir) == dir

\* downloader.py:384-388
PurgeCandidates(dir) == EmptyDir

\* downloader.py:323-347, the text of the exception _download raises
DownloadClassify(o) ==
    IF o.kind = "dlerror"
    THEN LET raw == Msg("bare", o.raw) IN
         IF Contains(raw, "sign in to confirm") \/ Contains(raw, "not a bot")
         THEN Msg("youtube_is_blocking", "")
         ELSE IF Contains(raw, "http error 403") THEN Msg("access_forbidden_download", "")
         ELSE IF Contains(raw, "http error 404") THEN Msg("video_not_found_download", "")
         ELSE IF Contains(raw, "http error 429") THEN Msg("rate_limited", "")
         ELSE IF Contains(raw, "private video") THEN Msg("private_video_download", "")
         ELSE IF Contains(raw, "video unavailable") THEN Msg("video_is_unavailable", "")
         ELSE Msg("download_failed", o.raw)
    ELSE Msg("download_failed", o.raw)

DownloadShouldRetryAlways(rc, e) == rc < DownloadMaxRetries

\* downloader.py:391, the test that sends the loop round again
DownloadShouldRetry(rc, e) ==
    rc < DownloadMaxRetries /\ (Contains(e, "rate limited") \/ Contains(e, "bot"))

\* downloader.py:293, the loop test
DownloadLoopTest(rc) == rc < DownloadMaxRetries

\* downloader.py:356-362: the candidates, and those of the greatest size
Candidates(dir) == {e \in Exts : dir[e] # Absent}
SmallestCandidates(dir) ==
    {e \in Candidates(dir) : \A f \in Candidates(dir) : dir[e] <= dir[f]}
Largest(dir) ==
    {e \in Candidates(dir) : \A f \in Candidates(dir) : dir[f] <= dir[e]}

\* downloader.py:375-400: an attempt of download_video failed with e
DownloadAttemptFailed(s, e) ==
    LET rc == s.retry_count + 1
        s1 == [s EXCEPT !.retry_count = rc,
                        !.error_msg = e,
                        !.temp = PurgeCandidates(s.temp),
                        !.temp_file = NoFile]
    IN IF DownloadShouldRetry(rc, e)
       THEN IF DownloadLoopTest(rc)
            THEN [s1 EXCEPT !.calls = s.calls + 1, !.pc = "download"]
            ELSE DownloadFailed(s1, Msg("max_retries_exceeded", ""))
       ELSE DownloadFailed(s1, e)

\* downloader.py:293-313 then 314-322: download_video entered, first call made
BeginDownload(s) ==
    [s EXCEPT !.pc = "download", !.retry_count = 0, !.calls = 1,
              !.error_msg = NoMsg, !.temp_file = NoFile,
              \* the locals of extract_info_with_fallback are gone
              !.strategy = 0, !.last_error = NoMsg]

\* ------------------------------------------------------------- extract_info
ExtractMaxRetriesOneMore == 3 + 1

\* downloader.py:216
ExtractMaxRetries == 3

\* downloader.py:233-254, the text of the exception _extract raises
ExtractClassify(o) ==
    IF o.kind = "dlerror"
    THEN LET raw == Msg("bare", o.raw) IN
         IF \/ Contains(raw, "sign in to confirm") \/ Contains(raw, "not a bot")
            \/ Contains(raw, "private video") \/ Contains(raw, "video unavailable")
            \/ Contains(raw, "removed by the user")
         THEN Msg("video_access_blocked", o.raw)
         ELSE IF Contains(raw, "http error 403") THEN Msg("access_forbidden_extract", "")
         ELSE IF Contains(raw, "http error 404") THEN Msg("video_not_found_extract", "")
         ELSE IF Contains(raw, "http error 429") THEN Msg("rate_limited", "")
         ELSE Msg("failed_to_extract", o.raw)
    ELSE Msg("could_not_extract_because", o.raw)

ExtractShouldRetryRateOnly(rc, e) ==
    rc < ExtractMaxRetries /\ Contains(e, "rate limited")

ExtractShouldRetryAlways(rc, e) == rc < ExtractMaxRetries

ExtractShouldRetryUnbounded(rc, e) ==
    Contains(e, "rate limited") \/ Contains(e, "bot")

\* downloader.py:273
ExtractShouldRetry(rc, e) ==
    rc < ExtractMaxRetries /\ (Contains(e, "rate limited") \/ Contains(e, "bot"))

\* downloader.py:219
ExtractLoopTest(rc) == rc < ExtractMaxRetries

\* main.py:408-412: what the task keeps of the metadata the capability
\* returned; the raw field of a returned result stands for its content
VideoInfoOf(o) == IF o.raw = "" THEN "info" ELSE o.raw

AfterExtractUnchecked(s, o) ==
    IF s.task = NoTask THEN Crash(s)
    ELSE BeginDownload([s EXCEPT !.task.videoInfo =
                                     IF o.kind = "empty" THEN NoInfo ELSE VideoInfoOf(o),
                                 !.task.progress = "downloading",
                                 !.task.message = TaskMsg("downloading", NoMsg)])

\* main.py:405-416, then download_video up to its first await
AfterExtract(s, o) ==
    IF o.kind = "empty"
    THEN OuterExcept(s, Msg("could_not_extract", ""))
    ELSE IF s.task = NoTask THEN Crash(s)
    ELSE BeginDownload([s EXCEPT !.task.videoInfo = VideoInfoOf(o),
                                 !.task.progress = "downloading",
                                 !.task.message = TaskMsg("downloading", NoMsg)])

\* downloader.py:580-592: extract_info_with_fallback entered, first strategy called
NumStrategies == 5
BeginFallback(s) ==
    [s EXCEPT !.pc = "fallback", !.strategy = 1, !.last_error = NoMsg, !.calls = 1]

ExtractInfoRaisedNoSweep(s, e) == ExtractionFailed(s, e)

\* main.py:381-387: extract_info raised e
ExtractInfoRaised(s, e) ==
    IF Contains(e, "blocked") \/ Contains(e, "bot")
    THEN IF s.task = NoTask THEN Crash(s)
         ELSE BeginFallback([s EXCEPT !.task.message = TaskMsg("trying_alternatives", NoMsg)])
    ELSE ExtractionFailed(s, e)

\* downloader.py:264-282: an attempt of extract_info failed with e
ExtractAttemptFailed(s, e) ==
    LET rc == s.retry_count + 1
        s1 == [s EXCEPT !.retry_count = rc,
                        !.error_msg = e]
    IN IF ExtractShouldRetry(rc, e)
       THEN IF ExtractLoopTest(rc)
            THEN [s1 EXCEPT !.calls = s.calls + 1]
            ELSE ExtractInfoRaised(s1, Msg("max_retries_exceeded", ""))
       ELSE ExtractInfoRaised(s1, e)

\* downloader.py:256-262: an attempt of extract_info returned
ExtractAttemptReturned(s, o) ==
    AfterExtract([s EXCEPT !.error_msg = NoMsg], o)

\* downloader.py:612-622: the strategy is over without a result
NextStrategy(s) ==
    IF s.strategy < NumStrategies
    THEN [s EXCEPT !.strategy = s.strategy + 1, !.calls = s.calls + 1,
                   \* the error extract_info raised is not used again
                   !.error_msg = NoMsg, !.retry_count = 0]
    ELSE ExtractionFailed(s, IF s.last_error # NoMsg THEN s.last_error
                             ELSE Msg("all_strategies_failed", ""))

StrategyDoneIgnoresResult(s, o) ==
    IF o.kind \in {"info", "empty"} THEN NextStrategy(s)
    ELSE NextStrategy([s EXCEPT !.last_error = Msg("bare", o.raw)])

StrategyDoneKeepsFirstError(s, o) ==
    IF o.kind = "info" THEN AfterExtract(s, o)
    ELSE IF o.kind = "empty" \/ s.last_error # NoMsg THEN NextStrategy(s)
    ELSE NextStrategy([s EXCEPT !.last_error = Msg("bare", o.raw)])

\* downloader.py:593-616: the call of one strategy is over
StrategyDone(s, o) ==
    IF o.kind = "info" THEN AfterExtract(s, o)
    ELSE IF o.kind = "empty" THEN NextStrategy(s)
    ELSE NextStrategy([s EXCEPT !.last_error = Msg("bare", o.raw)])

\* ----------------------------------------------------------- convert_to_hevc
UnlinkTempFileSkipped(dir, f) == dir

\* main.py:463-465
UnlinkTempFile(dir, f) == IF f # NoFile THEN [dir EXCEPT ![f] = Absent] ELSE dir

FinishNoFilename(s) ==
    IF s.out = Absent \/ s.out = 0
    THEN OuterExcept(s, Msg("no_output_file_created", ""))
    ELSE LET s1 == [s EXCEPT !.temp = UnlinkTempFile(s.temp, s.temp_file)]
         IN IF s1.task = NoTask THEN Crash(s1)
            ELSE [JobOver(s1, "done") EXCEPT
                     !.task.status = "ready",
                     !.task.message = TaskMsg("ready", NoMsg)]

FinishRenamed(s) ==
    IF s.out = Absent \/ s.out = 0
    THEN OuterExcept(s, Msg("no_output_file_created", ""))
    ELSE LET s1 == [s EXCEPT !.temp = UnlinkTempFile(s.temp, s.temp_file)]
         IN IF s1.task = NoTask THEN Crash(s1)
            ELSE [JobOver(s1, "done") EXCEPT
                     !.task.status = "ready", !.task.progress = "ready",
                     !.task.message = TaskMsg("ready", NoMsg),
                     !.task.filename = IF s.rename = NoRename THEN s.id
                                       ELSE s.rename]

\* main.py:460-471: the conversion is over, the output is checked
Finish(s) ==
    IF s.out = Absent \/ s.out = 0
    THEN OuterExcept(s, Msg("no_output_file_created", ""))
    ELSE LET s1 == [s EXCEPT !.temp = UnlinkTempFile(s.temp, s.temp_file)]
         IN IF s1.task = NoTask THEN Crash(s1)
            ELSE [JobOver(s1, "done") EXCEPT
                     !.task.status = "ready",
                     !.task.progress = "ready",
                     !.task.message = TaskMsg("ready", NoMsg),
                     !.task.filename = s.id]

\* main.py:450-458: convert_to_hevc raised e
ConvertRaised(s, e) ==
    IF s.task = NoTask THEN Crash(s)
    ELSE IF Contains(e, "hevc encoder")
    THEN Finish([s EXCEPT !.task.message = TaskMsg("hevc_not_available", NoMsg)])
    ELSE OuterExcept([s EXCEPT !.task.message = TaskMsg("x_conversion_failed", e),
                               !.task.status = "error"], e)

BeginConvertUnlabelled(s) ==
    IF s.temp_file = NoFile \/ s.temp[s.temp_file] = Absent
    THEN OuterExcept(s, Msg("download_no_file_created", ""))
    ELSE IF s.task = NoTask THEN Crash(s)
    ELSE [s EXCEPT !.task.message = TaskMsg("converting", NoMsg),
                   !.pc = "conv_probe",
                   !.retry_count = 0, !.calls = 0, !.error_msg = NoMsg]

\* main.py:439-449, then convert_to_hevc up to its first await
BeginConvert(s) ==
    IF s.temp_file = NoFile \/ s.temp[s.temp_file] = Absent
    THEN OuterExcept(s, Msg("download_no_file_created", ""))
    ELSE IF s.task = NoTask THEN Crash(s)
    ELSE [s EXCEPT !.task.progress = "converting",
                   !.task.message = TaskMsg("converting", NoMsg),
                   !.pc = "conv_probe",
                   \* the locals of download_video are gone
                   !.retry_count = 0, !.calls = 0, !.error_msg = NoMsg]

\* What the prober can do on the input file (downloader.py:451-470).
ProbeOutcomes == {"ok", "nonzero", "timeout", "unparsable", "no_video"}

ConvertProbedTolerant(s, p) == [s EXCEPT !.pc = "conv_hevc"]

\* downloader.py:449-470 and 540-544: the probe of the input
ConvertProbed(s, p) ==
    IF p = "nonzero" THEN ConvertRaised(s, Msg("conversion_failed", "input_corrupted"))
    ELSE IF p = "timeout" THEN ConvertRaised(s, Msg("conversion_timed_out", ""))
    ELSE [s EXCEPT !.pc = "conv_hevc"]

\* What one encoder run can do: its exit (or the timeout of subprocess.run)
\* and what it left at the output path (Absent: it did not touch it).
TierOutcomes == [rc : {"zero", "nonzero", "timeout"}, wrote : FileStates]

\* downloader.py:491, 514, 531
TierSucceeded(o, out) == o.rc = "zero" /\ out # Absent /\ out > 0

TierDoneGoesOn(s, o, next, stderr) ==
    LET out == IF o.wrote = Absent THEN s.out ELSE o.wrote
        s1 == [s EXCEPT !.out = out]
    IN IF o.rc = "timeout" THEN ConvertRaised(s1, Msg("conversion_timed_out", ""))
       ELSE IF next # "" THEN [s1 EXCEPT !.pc = next]
       ELSE IF TierSucceeded(o, out) THEN [s1 EXCEPT !.pc = "conv_validate"]
       ELSE ConvertRaised(s1, Msg("conversion_failed", stderr))

TierDoneTimeoutFallsBack(s, o, next, stderr) ==
    LET out == IF o.wrote = Absent THEN s.out ELSE o.wrote
        s1 == [s EXCEPT !.out = out]
    IN IF TierSucceeded(o, out) THEN [s1 EXCEPT !.pc = "conv_validate"]
       ELSE IF next # "" THEN [s1 EXCEPT !.pc = next]
       ELSE IF o.rc = "timeout" THEN ConvertRaised(s1, Msg("conversion_timed_out", ""))
       ELSE ConvertRaised(s1, Msg("conversion_failed", stderr))

\* downloader.py:488-544: one encoder run is over; next is the pc of the
\* following tier, "" after the last one
TierDone(s, o, next, stderr) ==
    LET out == IF o.wrote = Absent THEN s.out ELSE o.wrote
        s1 == [s EXCEPT !.out = out]
    IN IF o.rc = "timeout" THEN ConvertRaised(s1, Msg("conversion_timed_out", ""))
       ELSE IF TierSucceeded(o, out) THEN [s1 EXCEPT !.pc = "conv_validate"]
       ELSE IF next # "" THEN [s1 EXCEPT !.pc = next]
       ELSE ConvertRaised(s1, Msg("conversion_failed", stderr))

OutputValidatedIgnored(s, ok) == Finish(s)

\* downloader.py:553-559: the probe of the output
OutputValidated(s, ok) ==
    IF ok THEN Finish(s) ELSE ConvertRaised(s, Msg("converted_not_valid", ""))

\* ------------------------------------------------------ download_video, cont.
\* the files of the directory after the capability wrote `written`
Overlay(dir, written) ==
    [e \in Exts |-> IF written[e] = Absent THEN dir[e] ELSE written[e]]

\* downloader.py:351-369: the call of _download is over; it wrote `written`;
\* pick is the candidate max() returns
DownloadReturned(s, o, written, pick) ==
    LET s1 == [s EXCEPT !.temp = Overlay(s.temp, written)] IN
    IF o.kind # "ok" THEN DownloadAttemptFailed(s1, DownloadClassify(o))
    ELSE IF Candidates(s1.temp) = {}
    THEN DownloadAttemptFailed(s1, Msg("no_file_was_created", ""))
    ELSE IF s1.temp[pick] = 0
    THEN DownloadAttemptFailed(s1, Msg("file_is_empty", ""))
    ELSE [s1 EXCEPT !.temp_file = pick, !.pc = "dl_validate"]

\* downloader.py:367-373: validate_video_file returned ok
DownloadValidated(s, ok) ==
    IF ok THEN BeginConvert([s EXCEPT !.error_msg = NoMsg])
    ELSE DownloadAttemptFailed(s, Msg("not_a_valid_video_file", ""))

\* ------------------------------------------------------------------ actions
\* main.py:152-196; ids are fresh (uuid4), taken here in order
start_download(t) ==
    /\ pc[t] = "none"
    /\ \A u \in TaskIds : u < t => pc[u] # "none"
    /\ tasks' = [tasks EXCEPT ![t] =
                    [status |-> "processing", progress |-> "starting",
                     message |-> TaskMsg("initializing", NoMsg),
                     videoInfo |-> NoInfo, filename |-> 0]]
    /\ pc' = [pc EXCEPT ![t] = "queued"]
    /\ UNCHANGED <<retry_count, strategy, last_error, error_msg,
                   temp, downloads, temp_file, calls, log, instance>>

\* main.py:367-380, downloader.py:216-232: the job starts and makes the first
\* call of extract_info
JobStarted(s) ==
    IF s.task = NoTask THEN Crash(s)
    ELSE [s EXCEPT !.task.progress = "extracting",
                   !.task.message = TaskMsg("extracting", NoMsg),
                   !.pc = "extract", !.retry_count = 0, !.calls = 1,
                   !.error_msg = NoMsg]

JobStart(t) ==
    /\ pc[t] = "queued"
    /\ UNCHANGED <<log, instance>>
    /\ Commit(t, JobStarted(Local(t)))

ExtractAttempt(t) ==
    /\ pc[t] = "extract"
    /\ UNCHANGED <<log, instance>>
    /\ \E o \in ExtractOutcomes :
          Commit(t, IF o.kind \in {"info", "empty"}
                    THEN ExtractAttemptReturned(Local(t), o)
                    ELSE ExtractAttemptFailed(Local(t), ExtractClassify(o)))

FallbackAttempt(t) ==
    /\ pc[t] = "fallback"
    /\ UNCHANGED <<log, instance>>
    /\ \E o \in ExtractOutcomes : Commit(t, StrategyDone(Local(t), o))

\* What a call of ydl.download that raised may have left behind: nothing, or
\* one partial file.
PartialWrites ==
    {EmptyDir} \cup {[EmptyDir EXCEPT ![e] = z] : e \in Exts, z \in Sizes}

DownloadAttempt(t) ==
    /\ pc[t] = "download"
    /\ UNCHANGED <<log, instance>>
    /\ \E o \in DownloadOutcomes :
          \E written \in (IF o.kind = "ok" THEN [Exts -> FileStates] ELSE PartialWrites) :
             LET after == Overlay(temp[t], written) IN
             \E pick \in (IF o.kind = "ok" /\ Largest(after) # {}
                          THEN Largest(after) ELSE {NoFile}) :
                Commit(t, DownloadReturned(Local(t), o, written, pick))

DownloadValidate(t) ==
    /\ pc[t] = "dl_validate"
    /\ UNCHANGED <<log, instance>>
    /\ \E ok \in BOOLEAN : Commit(t, DownloadValidated(Local(t), ok))

ConvertProbe(t) ==
    /\ pc[t] = "conv_probe"
    /\ UNCHANGED <<log, instance>>
    /\ \E p \in ProbeOutcomes : Commit(t, ConvertProbed(Local(t), p))

ConvertHevc(t) ==
    /\ pc[t] = "conv_hevc"
    /\ UNCHANGED <<log, instance>>
    /\ \E o \in TierOutcomes : Commit(t, TierDone(Local(t), o, "conv_h264", ""))

ConvertH264(t) ==
    /\ pc[t] = "conv_h264"
    /\ UNCHANGED <<log, instance>>
    /\ \E o \in TierOutcomes : Commit(t, TierDone(Local(t), o, "conv_copy", ""))

ConvertCopy(t) ==
    /\ pc[t] = "conv_copy"
    /\ UNCHANGED <<log, instance>>
    /\ \E o \in TierOutcomes :
          LET out == IF o.wrote = Absent THEN downloads[t] ELSE o.wrote IN
          \E stderr \in (IF o.rc # "timeout" /\ ~TierSucceeded(o, out)
                         THEN RawStderr ELSE {""}) :
             Commit(t, TierDone(Local(t), o, "", stderr))

ConvertValidate(t) ==
    /\ pc[t] = "conv_validate"
    /\ UNCHANGED <<log, instance>>
    /\ \E ok \in BOOLEAN : Commit(t, OutputValidated(Local(t), ok))

cleanup_task_strict(t) ==
    /\ tasks[t] # NoTask
    /\ tasks' = [tasks EXCEPT ![t] = NoTask]
    /\ downloads' = [downloads EXCEPT ![t] = Absent]
    /\ temp' = [temp EXCEPT ![t] = EmptyDir]
    /\ UNCHANGED <<pc, retry_count, strategy, last_error,
                   error_msg, temp_file, calls, log, instance>>

\* main.py:213-226: what GET /files/{task_id}.mkv answers
download_file(t) == IF downloads[t] = Absent THEN "404" ELSE "file"

\* main.py:228-247
cleanup_task(t) ==
    /\ tasks' = [tasks EXCEPT ![t] = NoTask]
    /\ downloads' = [downloads EXCEPT ![t] = Absent]
    /\ temp' = [temp EXCEPT ![t] = EmptyDir]
    /\ UNCHANGED <<pc, retry_count, strategy, last_error,
                   error_msg, temp_file, calls, log, instance>>

Next ==
    \E t \in TaskIds :
       \/ start_download(t)
       \/ JobStart(t)
       \/ ExtractAttempt(t)
       \/ FallbackAttempt(t)
       \/ DownloadAttempt(t)
       \/ DownloadValidate(t)
       \/ ConvertProbe(t)
       \/ ConvertHevc(t)
       \/ ConvertH264(t)
       \/ ConvertCopy(t)
       \/ ConvertValidate(t)
       \/ cleanup_task(t)

Spec == Init /\ [][Next]_vars

\* ------------------------------------------------------- fair specification
\* main.py:186, 367-488: the steps of the job of task t. The job is a task of
\* the asyncio event loop, which resumes it whenever the call it awaits has
\* returned or raised.
JobStep(t) ==
    \/ JobStart(t)
    \/ ExtractAttempt(t)
    \/ FallbackAttempt(t)
    \/ DownloadAttempt(t)
    \/ DownloadValidate(t)
    \/ ConvertProbe(t)
    \/ ConvertHevc(t)
    \/ ConvertH264(t)
    \/ ConvertCopy(t)
    \/ ConvertValidate(t)

\* ------------------------------------------------ component specifications
\* The specifications below run one component of the job of one task from a
\* state the job reaches, and keep in log every call that returned with its
\* result, so that what the component did can be compared with what its
\* calls returned.
ScenarioTask == 1

\* main.py:175-183, 186: the job of a task start_download has just queued
QueuedJob(t) ==
    [id |-> t,
     task |-> [status |-> "processing", progress |-> "starting",
               message |-> TaskMsg("initializing", NoMsg),
               videoInfo |-> NoInfo, filename |-> 0],
     pc |-> "queued", retry_count |-> 0, strategy |-> 0, last_error |-> NoMsg,
     error_msg |-> NoMsg, temp |-> EmptyDir, out |-> Absent,
     temp_file |-> NoFile, calls |-> 0, rename |-> NoRename]

\* the state in which the job of task s.id is as s says and no other task exists
InitFrom(s) ==
    /\ tasks = [t \in TaskIds |-> IF t = s.id THEN s.task ELSE NoTask]
    /\ pc = [t \in TaskIds |-> IF t = s.id THEN s.pc ELSE "none"]
    /\ retry_count = [t \in TaskIds |-> IF t = s.id THEN s.retry_count ELSE 0]
    /\ strategy = [t \in TaskIds |-> IF t = s.id THEN s.strategy ELSE 0]
    /\ last_error = [t \in TaskIds |-> IF t = s.id THEN s.last_error ELSE NoMsg]
    /\ error_msg = [t \in TaskIds |-> IF t = s.id THEN s.error_msg ELSE NoMsg]
    /\ temp = [t \in TaskIds |-> IF t = s.id THEN s.temp ELSE EmptyDir]
    /\ downloads = [t \in TaskIds |-> IF t = s.id THEN s.out ELSE Absent]
    /\ temp_file = [t \in TaskIds |-> IF t = s.id THEN s.temp_file ELSE NoFile]
    /\ calls = [t \in TaskIds |-> IF t = s.id THEN s.calls ELSE 0]
    /\ log = << >>
    /\ InstanceInit
    /\ rename = [t \in TaskIds |-> IF t = s.id THEN s.rename ELSE NoRename]

\* ---- download_video_task, one job under fair scheduling
\* One started job; the client may call cleanup_task at any time and polls
\* or not (get_status changes nothing). Every call the job awaits returns or
\* raises, and the event loop then resumes the job: weak fairness of its steps.
\* The request gave any rename hint (main.py:172-186).
LiveInit ==
    \E h \in RenameHints : InitFrom([QueuedJob(ScenarioTask) EXCEPT !.rename = h])

LiveNext == JobStep(ScenarioTask) \/ cleanup_task(ScenarioTask)

LiveSpec == LiveInit /\ [][LiveNext]_vars /\ WF_vars(JobStep(ScenarioTask))

\* ---- extract_info_with_fallback
\* the errors the direct extraction ended with when the sweep is entered
SweepEntryErrors == {"private", "unavailable"}

\* main.py:380-385: extract_info raised a blocked error on its first attempt
\* and the sweep made its first call
SweepInit ==
    \E raw \in SweepEntryErrors :
       InitFrom(ExtractAttemptFailed(JobStarted(QueuedJob(ScenarioTask)),
                                     ExtractClassify([kind |-> "dlerror", raw |-> raw])))

\* downloader.py:598-602: what the call of one strategy can do; two results
\* of different content, no result, two errors of different text
SweepOutcomes ==
    {[kind |-> "info", raw |-> ""], [kind |-> "info", raw |-> "title_b"],
     [kind |-> "empty", raw |-> ""],
     [kind |-> "dlerror", raw |-> "private"],
     [kind |-> "exception", raw |-> "net_error"]}

\* downloader.py:582-622
SweepAttempt(t) ==
    /\ pc[t] = "fallback"
    /\ \E o \in SweepOutcomes :
          /\ Commit(t, StrategyDone(Local(t), o))
          /\ UNCHANGED instance
          /\ log' = Append(log, [call |-> "strategy", n |-> strategy[t], o |-> o])

SweepNext == \E t \in TaskIds : SweepAttempt(t)

SweepSpec == SweepInit /\ [][SweepNext]_vars

\* ---- convert_to_hevc
\* main.py:380-449: the extraction returned metadata, download_video returned
\* the one file it found, and convert_to_hevc starts
ConvertInit ==
    InitFrom(
      DownloadValidated(
        DownloadReturned(
          ExtractAttemptReturned(JobStarted(QueuedJob(ScenarioTask)),
                                 [kind |-> "info", raw |-> ""]),
          [kind |-> "ok", raw |-> ""],
          [e \in Exts |-> IF e = "mp4" THEN MaxSize ELSE Absent],
          "mp4"),
        TRUE))

\* downloader.py:472-533: the encoder tiers, in the order of the code
TierPcs == <<"conv_hevc", "conv_h264", "conv_copy">>

\* downloader.py:451-470
ConvertProbeRun(t) ==
    /\ pc[t] = "conv_probe"
    /\ \E p \in ProbeOutcomes :
          /\ Commit(t, ConvertProbed(Local(t), p))
          /\ UNCHANGED instance
          /\ log' = Append(log, [call |-> "probe", o |-> p, out |-> downloads[t]])

\* downloader.py:488-538
ConvertTierRun(t) ==
    \E i \in 1..Len(TierPcs) :
       /\ pc[t] = TierPcs[i]
       /\ \E o \in TierOutcomes :
             LET out == IF o.wrote = Absent THEN downloads[t] ELSE o.wrote IN
             \E stderr \in (IF i = Len(TierPcs) /\ o.rc # "timeout" /\ ~TierSucceeded(o, out)
                            THEN RawStderr ELSE {""}) :
                /\ Commit(t, TierDone(Local(t), o,
                                       IF i < Len(TierPcs) THEN TierPcs[i + 1] ELSE "",
                                       stderr))
                /\ UNCHANGED instance
                /\ log' = Append(log, [call |-> TierPcs[i], o |-> o, out |-> out])

\* downloader.py:553-555
ConvertValidateRun(t) ==
    /\ pc[t] = "conv_validate"
    /\ \E ok \in BOOLEAN :
          /\ Commit(t, OutputValidated(Local(t), ok))
          /\ UNCHANGED instance
          /\ log' = Append(log, [call |-> "validate", o |-> ok, out |-> downloads[t]])

ConvertNext ==
    \E t \in TaskIds :
       \/ ConvertProbeRun(t)
       \/ ConvertTierRun(t)
       \/ ConvertValidateRun(t)

ConvertSpec == ConvertInit /\ [][ConvertNext]_vars

\* ---- download_video
\* main.py:380-420: the extraction returned metadata and download_video made
\* its first call
FetchInit ==
    InitFrom(ExtractAttemptReturned(JobStarted(QueuedJob(ScenarioTask)),
                                    [kind |-> "info", raw |-> ""]))

\* the sizes of the files a call of ydl.download leaves in temp
CandidateSizes == 0..MaxCandidateSize
FetchWrites(o) ==
    IF o.kind = "ok" THEN [Exts -> {Absent} \cup CandidateSizes]
    ELSE {EmptyDir} \cup {[EmptyDir EXCEPT ![e] = z] : e \in Exts, z \in CandidateSizes}

\* downloader.py:293-400, up to the validation of the selected file
FetchAttempt(t) ==
    /\ pc[t] = "download"
    /\ \E o \in DownloadOutcomes :
          \E written \in FetchWrites(o) :
             LET after == Overlay(temp[t], written) IN
             \E pick \in (IF o.kind = "ok" /\ Largest(after) # {}
                          THEN Largest(after) ELSE {NoFile}) :
                /\ Commit(t, DownloadReturned(Local(t), o, written, pick))
                /\ UNCHANGED instance
                /\ log' = Append(log, [call |-> "download", o |-> o, dir |-> after])

FetchNext == \E t \in TaskIds : FetchAttempt(t)

FetchSpec == FetchInit /\ [][FetchNext]_vars

\* ------------------------------------------------------------------ claims
HasRecord(t) == tasks[t] # NoTask
DownloadPcs == {"download", "dl_validate"}
ConvertPcs == {"conv_probe", "conv_hevc", "conv_h264", "conv_copy", "conv_validate"}

\* the label a job that has its record shows while it is suspended at pc
ProgressAt(p) ==
    CASE p = "queued" -> "starting"
      [] p \in {"extract", "fallback"} -> "extracting"
      [] p \in DownloadPcs -> "downloading"
      [] p \in ConvertPcs -> "converting"
      [] OTHER -> ""

ProgressSteps ==
    {<<"starting", "extracting">>, <<"extracting", "downloading">>,
     <<"downloading", "converting">>, <<"converting", "ready">>}

\* C1: the progress label of a task only moves one step forward along
\* starting -> extracting -> downloading -> converting -> ready; while
\* download_video runs the task has its metadata, while convert_to_hevc runs
\* download_video has returned a file, and the label is that of the phase
\* the job is in.
C1_PhaseOrder ==
    /\ [](\A t \in TaskIds :
            /\ (HasRecord(t) /\ ProgressAt(pc[t]) # "")
                  => tasks[t].progress = ProgressAt(pc[t])
            /\ (HasRecord(t) /\ pc[t] \in DownloadPcs \cup ConvertPcs)
                  => tasks[t].videoInfo = "info"
            /\ pc[t] \in ConvertPcs => temp_file[t] # NoFile)
    /\ [][\A t \in TaskIds :
            (HasRecord(t) /\ tasks'[t] # NoTask
             /\ tasks'[t].progress # tasks[t].progress)
               => <<tasks[t].progress, tasks'[t].progress>> \in ProgressSteps]_vars

C1_Witness ==
    \E t \in TaskIds : pc[t] = "done" /\ tasks[t].progress = "ready"

\* C2: once the status of a task is ready or error its record does not change
\* again, except that cleanup_task removes it.
C2_TerminalFrozen ==
    [][\A t \in TaskIds :
          tasks[t].status \in {"ready", "error"}
             => (tasks'[t] = tasks[t] \/ tasks'[t] = NoTask)]_vars

C2_Witness ==
    \E t \in TaskIds : pc[t] = "done" /\ tasks[t].status = "error"
                       /\ tasks[t].progress = "downloading"

\* C3: a task whose status is ready has its non-empty output file
\* downloads/{task_id}.mkv, recorded under that name, and the step that made
\* it ready removed the file download_video had returned from temp.
C3_ReadyArtifact ==
    /\ [](\A t \in TaskIds :
            tasks[t].status = "ready"
               => /\ downloads[t] # Absent /\ downloads[t] > 0
                  /\ tasks[t].filename = t)
    /\ [][\A t \in TaskIds :
            (tasks[t].status # "ready" /\ tasks'[t].status = "ready")
               => /\ temp_file[t] # NoFile
                  /\ temp[t][temp_file[t]] # Absent
                  /\ temp'[t][temp_file[t]] = Absent]_vars

C3_Witness ==
    \E t \in TaskIds : tasks[t].status = "ready" /\ downloads[t] > 0

\* C4: a task whose status is error has no file temp/{task_id}_temp.*,
\* whichever phase failed.
C4_ErrorNoTemp ==
    \A t \in TaskIds : tasks[t].status = "error" => temp[t] = EmptyDir

C4_Witness ==
    \E t \in TaskIds : tasks[t].status = "error" /\ tasks[t].progress = "converting"

\* C5: one call of extract_info and one call of download_video make at most 3
\* calls of the capability, also when they end with an error.
C5_RetryBound ==
    \A t \in TaskIds :
       /\ pc[t] \in {"extract"} \cup DownloadPcs => calls[t] <= 3
       /\ (pc[t] = "done" /\ tasks[t].status = "error" /\ error_msg[t] # NoMsg)
             => calls[t] <= 3

C5_Witness ==
    \E t \in TaskIds : /\ pc[t] = "done" /\ tasks[t].status = "error"
                       /\ tasks[t].progress = "downloading"
                       /\ error_msg[t] = Msg("rate_limited", "")
                       /\ calls[t] = 3

\* The category of the exception _extract raised (downloader.py:238-254).
ExtractClass(e) ==
    CASE e.tpl = "video_access_blocked" -> "blocked"
      [] e.tpl = "access_forbidden_extract" -> "forbidden"
      [] e.tpl = "video_not_found_extract" -> "not_found"
      [] e.tpl = "rate_limited" -> "rate_limited"
      [] OTHER -> "other"

\* The category of the exception an attempt of download_video ended with
\* (downloader.py:328-347, 359-369): blocked is the bot check or sign-in wall.
DownloadClass(e) ==
    CASE e.tpl = "youtube_is_blocking" -> "blocked"
      [] e.tpl = "access_forbidden_download" -> "forbidden"
      [] e.tpl = "video_not_found_download" -> "not_found"
      [] e.tpl = "rate_limited" -> "rate_limited"
      [] OTHER -> "other"

\* This step is the handling of a failed attempt of extract_info: the call is
\* made again, or extract_info raised (error_msg' is the error of the attempt).
ExtractFailedStep(t) ==
    /\ pc[t] = "extract"
    /\ \/ calls'[t] = calls[t] + 1
       \/ pc'[t] \in {"fallback", "done", "crashed"} /\ error_msg'[t] # NoMsg
ExtractRetried(t) == pc'[t] = "extract" /\ calls'[t] = calls[t] + 1

\* The same for download_video.
DownloadFailedStep(t) ==
    /\ pc[t] \in DownloadPcs
    /\ \/ calls'[t] = calls[t] + 1
       \/ pc'[t] \in {"done", "crashed"} /\ error_msg'[t] # NoMsg
DownloadRetried(t) == pc'[t] = "download" /\ calls'[t] = calls[t] + 1

NamesBotOrRate(e) == Contains(e, "bot") \/ Contains(e, "rate limited")

\* C6 as stated: in extract_info every failed attempt that is rate-limited or
\* blocked is followed by another attempt while fewer than 3 were made.
C6_Original ==
    [][\A t \in TaskIds :
          (ExtractFailedStep(t) /\ calls[t] < 3
           /\ ExtractClass(error_msg'[t]) \in {"rate_limited", "blocked"})
             => ExtractRetried(t)]_vars

\* C6 amended: in extract_info a failed attempt is followed by another
\* attempt, while fewer than 3 were made, when its error text holds "rate
\* limited" or "bot" (every rate-limited failure; a blocked failure that names
\* the bot check); a blocked failure whose text holds neither is not followed
\* by another attempt.
C6_RetryOnBot ==
    [][\A t \in TaskIds :
          (ExtractFailedStep(t) /\ calls[t] < 3)
             => /\ (\/ ExtractClass(error_msg'[t]) = "rate_limited"
                    \/ /\ ExtractClass(error_msg'[t]) = "blocked"
                       /\ NamesBotOrRate(error_msg'[t]))
                      => ExtractRetried(t)
                /\ (/\ ExtractClass(error_msg'[t]) = "blocked"
                    /\ ~NamesBotOrRate(error_msg'[t]))
                      => ~ExtractRetried(t)]_vars

C6_Witness ==
    \E t \in TaskIds : /\ pc[t] = "extract" /\ calls[t] = 3
                       /\ error_msg[t] = Msg("video_access_blocked", "bot_check")

\* C7 as stated: in download_video a failed attempt that is blocked or
\* rate-limited is followed by another attempt while fewer than 3 were made.
C7_Original ==
    [][\A t \in TaskIds :
          (DownloadFailedStep(t) /\ calls[t] < 3
           /\ DownloadClass(error_msg'[t]) \in {"rate_limited", "blocked"})
             => DownloadRetried(t)]_vars

\* C8 as stated: in extract_info and download_video a failed attempt that is
\* forbidden, not-found or other is never followed by another attempt.
C8_Original ==
    [][\A t \in TaskIds :
          /\ (ExtractFailedStep(t)
              /\ ExtractClass(error_msg'[t]) \in {"forbidden", "not_found", "other"})
                => ~ExtractRetried(t)
          /\ (DownloadFailedStep(t)
              /\ DownloadClass(error_msg'[t]) \in {"forbidden", "not_found", "other"})
                => ~DownloadRetried(t)]_vars

\* C8 amended: a failed attempt that is forbidden or not-found, or other with
\* a text that holds neither "bot" nor "rate limited", is never followed by
\* another attempt.
C8_NoRetry ==
    [][\A t \in TaskIds :
          /\ (ExtractFailedStep(t)
              /\ \/ ExtractClass(error_msg'[t]) \in {"forbidden", "not_found"}
                 \/ /\ ExtractClass(error_msg'[t]) = "other"
                    /\ ~NamesBotOrRate(error_msg'[t]))
                => ~ExtractRetried(t)
          /\ (DownloadFailedStep(t)
              /\ \/ DownloadClass(error_msg'[t]) \in {"forbidden", "not_found"}
                 \/ /\ DownloadClass(error_msg'[t]) = "other"
                    /\ ~NamesBotOrRate(error_msg'[t]))
                => ~DownloadRetried(t)]_vars

C8_Witness ==
    \E t \in TaskIds : /\ pc[t] = "done" /\ tasks[t].status = "error"
                       /\ error_msg[t] = Msg("access_forbidden_extract", "")
                       /\ calls[t] = 1

\* C9 as stated: when the largest candidate has zero bytes, download_video
\* deletes the candidates and makes another attempt while fewer than 3 were
\* made.
C9_Original ==
    [][\A t \in TaskIds :
          (DownloadFailedStep(t) /\ calls[t] < 3
           /\ error_msg'[t] = Msg("file_is_empty", ""))
             => temp'[t] = EmptyDir /\ DownloadRetried(t)]_vars

\* C9 amended: when the largest candidate has zero bytes, download_video
\* deletes the candidates and raises; no other attempt follows.
C9_EmptyFileRaises ==
    [][\A t \in TaskIds :
          (DownloadFailedStep(t) /\ error_msg'[t] = Msg("file_is_empty", ""))
             => /\ temp'[t] = EmptyDir
                /\ pc'[t] \in {"done", "crashed"}
                /\ ~DownloadRetried(t)]_vars

C9_Witness ==
    \E t \in TaskIds : /\ pc[t] = "done" /\ tasks[t].status = "error"
                       /\ error_msg[t] = Msg("file_is_empty", "")
                       /\ calls[t] = 1 /\ temp[t] = EmptyDir

\* C10: every step that handles a failed attempt of download_video, the
\* attempt being retried or the error raised, ends with no candidate file of
\* the task.
C10_FailurePurges ==
    [][\A t \in TaskIds : DownloadFailedStep(t) => temp'[t] = EmptyDir]_vars

C10_Witness ==
    \E t \in TaskIds : /\ pc[t] = "download" /\ retry_count[t] > 0
                       /\ Contains(error_msg[t], "rate limited")
                       /\ temp[t] = EmptyDir

\* ---- claims on extract_info_with_fallback (SweepSpec)
LogIndexes == 1..Len(log)
SweepReturned == log # << >> /\ log[Len(log)].o.kind = "info"
SweepRaisedAt(i) == log[i].o.kind \in {"dlerror", "exception"}
\* the error of the last strategy that raised, as the sweep surfaces it
SweepLastError ==
    IF \E i \in LogIndexes : SweepRaisedAt(i)
    THEN LET k == CHOOSE i \in LogIndexes :
                     /\ SweepRaisedAt(i)
                     /\ \A j \in LogIndexes : SweepRaisedAt(j) => j <= i
         IN Msg("bare", log[k].o.raw)
    ELSE Msg("all_strategies_failed", "")

\* C11: the i-th call of the sweep is the call of strategy i; no call follows
\* a call that returned a non-empty result; while the sweep runs no call has
\* returned one; and once strategy k returned one, exactly k calls were made,
\* the sweep is over and the job goes on with the content of that result.
C11_FirstSuccessStops ==
    /\ Len(log) <= NumStrategies
    /\ \A i \in LogIndexes : log[i].call = "strategy" /\ log[i].n = i
    /\ \A i \in LogIndexes : log[i].o.kind = "info" => i = Len(log)
    /\ pc[ScenarioTask] = "fallback"
          => /\ ~SweepReturned
             /\ strategy[ScenarioTask] = Len(log) + 1
             /\ calls[ScenarioTask] = Len(log) + 1
    /\ SweepReturned
          => /\ pc[ScenarioTask] = "download"
             /\ tasks[ScenarioTask].videoInfo = VideoInfoOf(log[Len(log)].o)

C11_Witness ==
    /\ Len(log) = 3 /\ SweepReturned /\ SweepRaisedAt(1) /\ log[2].o.kind = "empty"
    /\ pc[ScenarioTask] = "download"
    /\ tasks[ScenarioTask].videoInfo = "title_b"

\* C12: the sweep ends without a result only after one call of each of the 5
\* strategies, none of which returned a non-empty result; the task is then in
\* error with the message made from the error of the last strategy that
\* raised; the job never goes on to the download without a non-empty result.
C12_AllFailRaisesLast ==
    /\ pc[ScenarioTask] = "done"
          => /\ Len(log) = NumStrategies
             /\ \A i \in LogIndexes : log[i].o.kind # "info"
             /\ tasks[ScenarioTask].status = "error"
             /\ tasks[ScenarioTask].message = ExtractionErrorMessage(SweepLastError)
    /\ (Len(log) = NumStrategies /\ ~SweepReturned) => pc[ScenarioTask] = "done"
    /\ pc[ScenarioTask] = "download" => SweepReturned

C12_Witness ==
    /\ pc[ScenarioTask] = "done" /\ Len(log) = NumStrategies
    /\ log[3].o.raw = "private" /\ log[4].o.raw = "net_error"
    /\ log[5].o.kind = "empty"
    /\ tasks[ScenarioTask].message = TaskMsg("x_extraction_failed", Msg("bare", "net_error"))

\* ---- claims on download_video_task (Spec)
\* the sweep has just been entered: error_msg is the error extract_info raised
SweepEntered(t) == pc[t] = "fallback" /\ strategy[t] = 1
\* the job ended in the handler of main.py:389-403 with the error extract_info raised
ExtractionGaveUp(t) ==
    /\ pc[t] = "done" /\ tasks[t].status = "error"
    /\ tasks[t].progress = "extracting" /\ error_msg[t] # NoMsg
NamesBlockedOrBot(e) == Contains(e, "blocked") \/ Contains(e, "bot")

\* C13 as stated: the sweep is entered exactly when the direct extraction
\* ended with an error classified blocked.
C13_Original ==
    \A t \in TaskIds :
       /\ SweepEntered(t) => ExtractClass(error_msg[t]) = "blocked"
       /\ ExtractionGaveUp(t) => ExtractClass(error_msg[t]) # "blocked"

\* C13 amended: the sweep is entered only with an error of extract_info whose
\* text holds "blocked" or "bot" (every blocked error; an other error whose
\* raw text holds one of the words), never with a forbidden, not-found or
\* rate-limited one; a direct extraction that ended the job in error had no
\* such text; and while the sweep runs the task is not in error.
C13_SweepOnBlockedText ==
    \A t \in TaskIds :
       /\ SweepEntered(t)
             => /\ NamesBlockedOrBot(error_msg[t])
                /\ ExtractClass(error_msg[t]) \in {"blocked", "other"}
       /\ ExtractionGaveUp(t)
             => /\ ~NamesBlockedOrBot(error_msg[t])
                /\ ExtractClass(error_msg[t]) # "blocked"
       /\ (pc[t] = "fallback" /\ HasRecord(t)) => tasks[t].status = "processing"

C13_Witness ==
    \E t \in TaskIds : /\ SweepEntered(t) /\ HasRecord(t)
                       /\ ExtractClass(error_msg[t]) = "other"
                       /\ Contains(error_msg[t], "bot")

\* the task messages that name a category and embed no error text
FixedCategoryTemplates ==
    CrossTemplates \ {"x_extraction_failed", "x_download_failed",
                      "x_conversion_failed", "x_error"}
ClassifiedCategories == {"blocked", "forbidden", "not_found", "rate_limited"}
\* the failure that put the task in error was one of a detected category
FailureClassified(t) ==
    \/ /\ tasks[t].progress = "extracting" /\ error_msg[t] # NoMsg
       /\ ExtractClass(error_msg[t]) \in ClassifiedCategories
    \/ /\ tasks[t].progress = "extracting" /\ Len(log) = NumStrategies
       /\ t = ScenarioTask
    \/ /\ tasks[t].progress = "downloading" /\ error_msg[t] # NoMsg
       /\ DownloadClass(error_msg[t]) \in ClassifiedCategories
    \/ /\ tasks[t].progress = "converting"
       /\ tasks[t].message.err.tpl = "conversion_timed_out"

\* C14 as stated: a task in error after a failure of a detected category
\* (here: a blocked extraction followed by a sweep that failed) shows the
\* fixed message of a category, with no error text in it.
C14_Original ==
    \A t \in TaskIds :
       (tasks[t].status = "error" /\ FailureClassified(t))
          => /\ tasks[t].message.tpl \in FixedCategoryTemplates
             /\ tasks[t].message.err = NoMsg

\* ---- claims on convert_to_hevc (ConvertSpec)
IsTier(i) == \E k \in 1..Len(TierPcs) : log[i].call = TierPcs[k]
TierOk(i) == IsTier(i) /\ TierSucceeded(log[i].o, log[i].out)
TierTimedOut(i) == IsTier(i) /\ log[i].o.rc = "timeout"
LastCall == log[Len(log)]
\* the last call made convert_to_hevc raise
ConvertFailed ==
    /\ log # << >>
    /\ \/ LastCall.call = "probe" /\ LastCall.o \in {"nonzero", "timeout"}
       \/ TierTimedOut(Len(log))
       \/ LastCall.call = "conv_copy" /\ ~TierOk(Len(log))
       \/ LastCall.call = "validate" /\ LastCall.o = FALSE
\* the last call made convert_to_hevc return
ConvertReturned ==
    log # << >> /\ LastCall.call = "validate" /\ LastCall.o = TRUE

\* C15 as stated: when convert_to_hevc raised, the task is in error; a task
\* is ready only when convert_to_hevc returned.
C15_Original ==
    /\ ConvertFailed
          => /\ pc[ScenarioTask] = "done"
             /\ tasks[ScenarioTask].status = "error"
    /\ tasks[ScenarioTask].status = "ready" => ConvertReturned

\* C16: after the probe the encoder runs are the tiers in the order HEVC,
\* H.264, stream copy, each at most once; a tier is run (or running) only
\* when every earlier tier was run and did not succeed; no tier is run after
\* one that succeeded.
C16_TierOrder ==
    /\ \A i \in LogIndexes :
          /\ (i = 1) <=> (log[i].call = "probe")
          /\ IsTier(i) => /\ i - 1 <= Len(TierPcs)
                          /\ log[i].call = TierPcs[i - 1]
                          /\ \A j \in 2..(i - 1) : IsTier(j) /\ ~TierOk(j)
          /\ TierOk(i) => \A j \in LogIndexes : j > i => ~IsTier(j)
    /\ \A k \in 1..Len(TierPcs) :
          pc[ScenarioTask] = TierPcs[k]
             => /\ Len(log) = k
                /\ \A j \in 2..k : IsTier(j) /\ ~TierOk(j)

C16_Witness ==
    /\ Len(log) = 3 /\ log[2].call = "conv_hevc" /\ ~TierOk(2)
    /\ log[2].o.rc = "nonzero"
    /\ log[3].call = "conv_h264" /\ TierOk(3)
    /\ pc[ScenarioTask] = "conv_validate"

\* C17: an encoder run that timed out is the last call of convert_to_hevc:
\* no tier follows it, and the task is in error with the timeout error; a
\* tier that was followed by another tier had failed without a timeout.
C17_TimeoutStops ==
    \A i \in LogIndexes :
       /\ TierTimedOut(i)
             => /\ i = Len(log)
                /\ pc[ScenarioTask] = "done"
                /\ tasks[ScenarioTask].status = "error"
                /\ tasks[ScenarioTask].message =
                      TaskMsg("x_conversion_failed", Msg("conversion_timed_out", ""))
       /\ (IsTier(i) /\ i < Len(log) /\ IsTier(i + 1))
             => log[i].o.rc # "timeout" /\ ~TierOk(i)

C17_Witness ==
    /\ Len(log) = 3 /\ log[2].o.rc = "nonzero" /\ TierTimedOut(3)
    /\ log[3].call = "conv_h264" /\ log[3].out # Absent
    /\ tasks[ScenarioTask].status = "error"

\* C18 as stated: whatever the probe of the input did, the first tier is
\* attempted after it.
C18_Original ==
    (Len(log) = 1 /\ log[1].call = "probe") => pc[ScenarioTask] = "conv_hevc"

\* C18 amended: after a probe that exited with 0, also when its output was
\* unparsable or showed no video stream, the first tier is attempted; a
\* probe that exited non-zero or timed out is the last call of
\* convert_to_hevc: no tier is attempted and the task is in error.
C18_ProbeFailure ==
    (log # << >> /\ log[1].call = "probe")
       => /\ (log[1].o \in {"ok", "unparsable", "no_video"} /\ Len(log) = 1)
                => pc[ScenarioTask] = "conv_hevc"
          /\ log[1].o \in {"nonzero", "timeout"}
                => /\ Len(log) = 1
                   /\ pc[ScenarioTask] = "done"
                   /\ tasks[ScenarioTask].status = "error"
                   /\ tasks[ScenarioTask].message.tpl = "x_conversion_failed"
                   /\ tasks[ScenarioTask].message.err =
                         (IF log[1].o = "timeout"
                          THEN Msg("conversion_timed_out", "")
                          ELSE Msg("conversion_failed", "input_corrupted"))

C18_Witness ==
    /\ Len(log) = 2 /\ log[1].o = "no_video" /\ log[2].call = "conv_hevc"

\* C19: the output is probed exactly after a tier that ended with exit code
\* 0 and a non-empty output file; convert_to_hevc returns, and the task is
\* ready, exactly when that probe validates the output; when it does not,
\* no other tier is run and the task is in error.
C19_SuccessIffValidated ==
    /\ pc[ScenarioTask] = "conv_validate" <=> (log # << >> /\ TierOk(Len(log)))
    /\ \A i \in LogIndexes :
          log[i].call = "validate" => (i = Len(log) /\ i > 1 /\ TierOk(i - 1))
    /\ ConvertReturned
          => /\ pc[ScenarioTask] = "done"
             /\ tasks[ScenarioTask].status = "ready"
             /\ downloads[ScenarioTask] = log[Len(log) - 1].out
    /\ (log # << >> /\ LastCall.call = "validate" /\ LastCall.o = FALSE)
          => /\ pc[ScenarioTask] = "done"
             /\ tasks[ScenarioTask].status = "error"
             /\ tasks[ScenarioTask].message =
                   TaskMsg("x_conversion_failed", Msg("converted_not_valid", ""))

C19_Witness ==
    /\ Len(log) = 5 /\ log[4].call = "conv_copy" /\ TierOk(4)
    /\ LastCall.call = "validate" /\ LastCall.o = FALSE
    /\ tasks[ScenarioTask].status = "error"

\* ---- claims on download_video (FetchSpec)
\* C20: when an attempt left candidate files and download_video goes on to
\* validate one, the files are those the attempt left and the one selected
\* is a candidate that no other candidate exceeds in size (and is not empty).
C20_LargestSelected ==
    pc[ScenarioTask] = "dl_validate"
       => /\ log # << >> /\ log[Len(log)].o.kind = "ok"
          /\ temp[ScenarioTask] = log[Len(log)].dir
          /\ temp_file[ScenarioTask] \in Candidates(temp[ScenarioTask])
          /\ temp[ScenarioTask][temp_file[ScenarioTask]] > 0
          /\ \A e \in Exts :
                temp[ScenarioTask][e] <= temp[ScenarioTask][temp_file[ScenarioTask]]

C20_Witness ==
    /\ pc[ScenarioTask] = "dl_validate"
    /\ temp[ScenarioTask]["mp4"] = 1 /\ temp[ScenarioTask]["webm"] = 2
    /\ temp_file[ScenarioTask] = "webm"

\* ------------------------------------------------------------ get_ydl_opts
\* downloader.py:134
BaseDelay(fa) == 1 + fa * 2

\* downloader.py:135-137: the seconds get_ydl_opts keeps the thread that called
\* it in time.sleep, when elapsed seconds have passed since last_attempt_time
SleepTime(fa, elapsed) ==
    IF elapsed < BaseDelay(fa) THEN BaseDelay(fa) - elapsed ELSE 0

\* downloader.py:228, 596: the least delay of _extract in its worker thread
ExtractDelay(rc) == 3 + rc * 2
\* downloader.py:274-276: the least wait before the retry of extract_info
ExtractRetryWait(rc) == 10 + rc * 5
\* downloader.py:392-394: the least wait before the retry of download_video
DownloadRetryWait(rc) == 15 + rc * 10

UseBrowserCookiesAlways(rc, browsers) == browsers

\* downloader.py:222, 296
UseBrowserCookies(rc, browsers) == rc = 0 /\ browsers

\* downloader.py:564-574, 587: only the first strategy asks for the browser store
StrategyUsesBrowser(k) == k = 1

\* downloader.py:206
FileExists(f) == f.state # "absent"
FileNonEmpty(f) == f.state = "unreadable" \/ f.lines # << >>

\* downloader.py:195-210
CookieOptions(use_browser_cookies, browsers, file) ==
    IF use_browser_cookies /\ browsers
    THEN [cookiesfrombrowser |-> TRUE, cookiefile |-> FALSE]
    ELSE IF FileExists(file) /\ FileNonEmpty(file)
    THEN [cookiesfrombrowser |-> FALSE, cookiefile |-> TRUE]
    ELSE NoCookies

\* ---- two jobs side by side, each with its downloader
\* Two started jobs run to the end; the outcomes of the calls are one
\* representative of each way the loops of extract_info, of the sweep and of
\* download_video go on.
PairIds == {1, 2}

SharedCounterKey(t) == 1

\* main.py:369: each job builds its own VideoDownloader, which holds the
\* failure counter of the job
CounterKey(t) == t

\* one cookie record of youtube.com, in fields
CookieRecord == <<".youtube.com", "x", "x", "x", "x", "x", "x">>

PairCookieFiles ==
    {AbsentFile, [state |-> "readable", lines |-> << >>],
     [state |-> "readable", lines |-> <<CookieRecord>>]}

PairInit ==
    /\ tasks = [t \in PairIds |-> QueuedJob(t).task]
    /\ pc = [t \in PairIds |-> "queued"]
    /\ retry_count = [t \in PairIds |-> 0]
    /\ strategy = [t \in PairIds |-> 0]
    /\ last_error = [t \in PairIds |-> NoMsg]
    /\ error_msg = [t \in PairIds |-> NoMsg]
    /\ temp = [t \in PairIds |-> EmptyDir]
    /\ downloads = [t \in PairIds |-> Absent]
    /\ temp_file = [t \in PairIds |-> NoFile]
    /\ calls = [t \in PairIds |-> 0]
    /\ log = << >>
    /\ rename = [t \in PairIds |-> NoRename]
    /\ failed_attempts = [t \in PairIds |-> 0]
    /\ detected_browsers \in BOOLEAN
    /\ cookies_file \in PairCookieFiles
    /\ ydl_opts = [t \in PairIds |-> NoCookies]
    /\ loop = 0

PairExtractOutcomes ==
    {[kind |-> "info", raw |-> ""], [kind |-> "dlerror", raw |-> "bot_check"],
     [kind |-> "dlerror", raw |-> "http429"]}
PairSweepOutcomes ==
    {[kind |-> "info", raw |-> ""], [kind |-> "dlerror", raw |-> "private"]}
PairDownloadOutcomes ==
    {[kind |-> "ok", raw |-> ""], [kind |-> "dlerror", raw |-> "http429"]}

\* downloader.py:223, 297, 588: the get_ydl_opts of the call the job makes, if
\* any, before it is suspended in s1; fa is the failure counter then, elapsed
\* the least time since last_attempt_time
NextCall(t, s1, fa, elapsed) ==
    LET called == s1.pc \in {"extract", "fallback", "download"}
        use_browser_cookies ==
            IF s1.pc = "fallback" THEN StrategyUsesBrowser(s1.strategy)
            ELSE UseBrowserCookies(s1.retry_count, detected_browsers)
    IN /\ ydl_opts' = IF called
                      THEN [ydl_opts EXCEPT ![t] =
                               CookieOptions(use_browser_cookies,
                                             detected_browsers, cookies_file)]
                      ELSE ydl_opts
       /\ loop' = IF called /\ SleepTime(fa, elapsed) > 0 THEN t ELSE 0
       /\ UNCHANGED <<log, detected_browsers, cookies_file, rename>>

\* main.py:369-380, downloader.py:13-28, 216-258: last_attempt_time is 0, so
\* the test of downloader.py:136 compares the time of day with the delay
PairJobStart(t) ==
    /\ loop = 0
    /\ pc[t] = "queued"
    /\ Commit(t, JobStarted(Local(t)))
    /\ failed_attempts' = [failed_attempts EXCEPT ![CounterKey(t)] = 0]
    /\ ydl_opts' = [ydl_opts EXCEPT ![t] =
                       CookieOptions(UseBrowserCookies(0, detected_browsers),
                                     detected_browsers, cookies_file)]
    /\ UNCHANGED <<log, detected_browsers, cookies_file, loop, rename>>

\* downloader.py:256-280, main.py:381-385, 405-420: an attempt of extract_info
\* is over. A failure is counted and its time kept; the retry follows a wait,
\* the sweep follows at once, download_video follows a success.
PairExtract(t) ==
    /\ loop = 0
    /\ pc[t] = "extract"
    /\ \E o \in PairExtractOutcomes :
          LET returned == o.kind \in {"info", "empty"}
              s1 == IF returned THEN ExtractAttemptReturned(Local(t), o)
                    ELSE ExtractAttemptFailed(Local(t), ExtractClassify(o))
              fa == IF returned THEN 0 ELSE failed_attempts[CounterKey(t)] + 1
              elapsed == IF s1.pc = "extract" THEN ExtractRetryWait(s1.retry_count)
                         ELSE IF s1.pc = "fallback" THEN 0
                         ELSE ExtractDelay(retry_count[t])
          IN /\ Commit(t, s1)
             /\ failed_attempts' = [failed_attempts EXCEPT ![CounterKey(t)] = fa]
             /\ NextCall(t, s1, fa, elapsed)

\* downloader.py:593-616: a strategy of the sweep is over; the sweep neither
\* counts failures nor sets last_attempt_time, and the delay of the strategy
\* in its worker thread has passed since the sleep at the entry of the sweep
PairFallback(t) ==
    /\ loop = 0
    /\ pc[t] = "fallback"
    /\ \E o \in PairSweepOutcomes :
          LET s1 == StrategyDone(Local(t), o)
              fa == failed_attempts[CounterKey(t)]
          IN /\ Commit(t, s1)
             /\ UNCHANGED failed_attempts
             /\ NextCall(t, s1, fa, BaseDelay(fa) + ExtractDelay(0))

\* downloader.py:351-394: a call of _download is over
PairDownload(t) ==
    /\ loop = 0
    /\ pc[t] = "download"
    /\ \E o \in PairDownloadOutcomes :
          \E written \in PartialWrites :
             LET after == Overlay(temp[t], written) IN
             \E pick \in (IF o.kind = "ok" /\ Largest(after) # {}
                          THEN Largest(after) ELSE {NoFile}) :
                LET s1 == DownloadReturned(Local(t), o, written, pick)
                    fa == IF s1.pc = "dl_validate" THEN failed_attempts[CounterKey(t)]
                          ELSE failed_attempts[CounterKey(t)] + 1
                IN /\ Commit(t, s1)
                   /\ failed_attempts' = [failed_attempts EXCEPT ![CounterKey(t)] = fa]
                   /\ NextCall(t, s1, fa, DownloadRetryWait(s1.retry_count))

\* downloader.py:367-394: validate_video_file returned
PairValidate(t) ==
    /\ loop = 0
    /\ pc[t] = "dl_validate"
    /\ \E ok \in BOOLEAN :
          LET s1 == DownloadValidated(Local(t), ok)
              fa == IF ok THEN 0 ELSE failed_attempts[CounterKey(t)] + 1
          IN /\ Commit(t, s1)
             /\ failed_attempts' = [failed_attempts EXCEPT ![CounterKey(t)] = fa]
             /\ NextCall(t, s1, fa, DownloadRetryWait(s1.retry_count))

\* downloader.py:446-559: the steps of convert_to_hevc, which uses neither
\* get_ydl_opts nor the failure counter
PairConvert(t) ==
    /\ loop = 0
    /\ \/ ConvertProbe(t) \/ ConvertHevc(t) \/ ConvertH264(t)
       \/ ConvertCopy(t) \/ ConvertValidate(t)

\* a step of the coroutine of job t; it needs the event loop thread
PairJobStep(t) ==
    \/ PairJobStart(t)
    \/ PairExtract(t)
    \/ PairFallback(t)
    \/ PairDownload(t)
    \/ PairValidate(t)
    \/ PairConvert(t)

\* downloader.py:137: time.sleep returns and the coroutine of job t goes on to
\* its await, which gives the event loop thread back
WakeUp(t) ==
    /\ loop = t
    /\ loop' = 0
    /\ UNCHANGED <<tasks, pc, retry_count, strategy, last_error, error_msg,
                   temp, downloads, temp_file, calls, log,
                   failed_attempts, detected_browsers, cookies_file, ydl_opts,
                   rename>>

PairNext == \E t \in PairIds : PairJobStep(t) \/ WakeUp(t)

PairSpec == PairInit /\ [][PairNext]_vars

\* ---- validate_cookies_file
\* A field of a line of cookies.txt: blank (empty or white space), a text that
\* starts with '#', with or without the site name in it, the site name, or
\* any other text.
BlankField == ""
HashFields == {"#comment", "#HttpOnly_.youtube.com"}
SiteFields == {".youtube.com", "#HttpOnly_.youtube.com"}

\* downloader.py:92
RecordFields == 6

RECURSIVE LStrip(_)
LStrip(line) ==
    IF line = << >> THEN << >>
    ELSE IF Head(line) = BlankField THEN LStrip(Tail(line))
    ELSE line

RECURSIVE RStrip(_)
RStrip(line) ==
    IF line = << >> THEN << >>
    ELSE IF line[Len(line)] = BlankField THEN RStrip(SubSeq(line, 1, Len(line) - 1))
    ELSE line

KeepLine(line) == line

\* downloader.py:86: line.strip() takes the white space, tabs included, off
\* both ends of the line, and with it the blank fields there
StripLine(line) == RStrip(LStrip(line))

\* downloader.py:85-96, the loop over the lines; the counters it leaves
CountLines(lines) ==
    LET stripped == [i \in 1..Len(lines) |-> StripLine(lines[i])]
        counted == {i \in 1..Len(lines) :
                       /\ stripped[i] # << >>
                       /\ stripped[i][1] \notin HashFields
                       /\ Len(stripped[i]) >= RecordFields}
    IN [valid_lines |-> Cardinality(counted),
        youtube_cookies |->
            Cardinality({i \in counted : stripped[i][1] \in SiteFields})]

\* downloader.py:57-129
validate_cookies_file(file) ==
    IF ~FileExists(file) THEN [valid |-> FALSE, error |-> "file not found"]
    ELSE IF file.state = "unreadable"
    THEN [valid |-> FALSE, error |-> "failed to read"]
    ELSE IF \A i \in 1..Len(file.lines) : StripLine(file.lines[i]) = << >>
    THEN [valid |-> FALSE, error |-> "is empty"]
    ELSE LET n == CountLines(file.lines) IN
         IF n.valid_lines = 0
         THEN [valid |-> FALSE, error |-> "no valid cookie entries"]
         ELSE IF n.youtube_cookies = 0
         THEN [valid |-> FALSE, error |-> "no youtube cookies"]
         ELSE [valid |-> TRUE, error |-> ""]

\* The lines tried: a first field of each kind followed by one field less
\* than a record needs or by just enough, with and without a blank field in
\* front and behind; a blank line; a record of another site that names the
\* site in its second field.
Fields(kind, n) == [i \in 1..n |-> kind]
CookieLines ==
    {Fields(BlankField, pre) \o <<first>> \o Fields("x", rest) \o Fields(BlankField, post) :
        pre \in 0..1, first \in HashFields \cup SiteFields \cup {"x"},
        rest \in (RecordFields - 2)..(RecordFields - 1), post \in 0..1}
    \cup {<<BlankField>>, <<"x", ".youtube.com">> \o Fields("x", RecordFields - 2)}

RECURSIVE SeqsUpTo(_, _)
SeqsUpTo(S, n) ==
    IF n = 0 THEN {<< >>}
    ELSE LET shorter == SeqsUpTo(S, n - 1)
         IN shorter \cup {Append(q, x) : q \in shorter, x \in S}

\* cookies.txt: absent, readable with up to MaxLines lines, or a file open()
\* or read() fails on (no permission, not UTF-8) whatever its lines are
CookieFiles ==
    {AbsentFile}
    \cup [state : {"readable"}, lines : SeqsUpTo(CookieLines, MaxLines)]
    \cup [state : {"unreadable"}, lines : {<< >>, <<CookieRecord>>}]

CookieInit ==
    /\ tasks = [t \in TaskIds |-> NoTask]
    /\ pc = [t \in TaskIds |-> "none"]
    /\ retry_count = [t \in TaskIds |-> 0]
    /\ strategy = [t \in TaskIds |-> 0]
    /\ last_error = [t \in TaskIds |-> NoMsg]
    /\ error_msg = [t \in TaskIds |-> NoMsg]
    /\ temp = [t \in TaskIds |-> EmptyDir]
    /\ downloads = [t \in TaskIds |-> Absent]
    /\ temp_file = [t \in TaskIds |-> NoFile]
    /\ calls = [t \in TaskIds |-> 0]
    /\ log = << >>
    /\ rename = [t \in TaskIds |-> NoRename]
    /\ failed_attempts = [t \in TaskIds |-> 0]
    /\ detected_browsers = FALSE
    /\ cookies_file \in CookieFiles
    /\ ydl_opts = [t \in TaskIds |-> NoCookies]
    /\ loop = 0

\* a call of validate_cookies_file returns
ValidateCookies ==
    /\ log = << >>
    /\ log' = <<[call |-> "validate_cookies_file",
                 o |-> validate_cookies_file(cookies_file)]>>
    /\ UNCHANGED <<tasks, pc, retry_count, strategy, last_error, error_msg,
                   temp, downloads, temp_file, calls, instance>>

CookieNext == ValidateCookies

CookieSpec == CookieInit /\ [][CookieNext]_vars

\* ---- claims on cleanup_task (Spec)
\* cleanup_task was called for the task and nothing of it is left
CleanedUp(t) ==
    /\ pc[t] # "none" /\ tasks[t] = NoTask
    /\ downloads[t] = Absent /\ temp[t] = EmptyDir
\* a step leaves the task table and both directories as they are
SameStore == tasks' = tasks /\ downloads' = downloads /\ temp' = temp

\* C21: in a state a call of cleanup_task left, another call for the same id
\* succeeds, and it leaves the task table and both directories unchanged.
C21_CleanupIdempotent ==
    \A t \in TaskIds :
       CleanedUp(t) => /\ ENABLED (cleanup_task(t) /\ SameStore)
                       /\ ~ENABLED (cleanup_task(t) /\ ~SameStore)

C21_Witness ==
    \E t \in TaskIds : CleanedUp(t) /\ pc[t] = "done"

\* C22 as stated: once cleanup_task has removed the record of a task (only
\* cleanup_task removes records), no output file and no temp file of the task
\* exists, also while its job is still running.
C22_Original ==
    \A t \in TaskIds :
       (pc[t] # "none" /\ tasks[t] = NoTask)
          => downloads[t] = Absent /\ temp[t] = EmptyDir

\* ---- claims on download_video_task, cont. (Spec)
\* C30: a task whose progress is downloading, converting or ready has its
\* metadata; a task whose extraction returned nothing is in error with
\* progress extracting and no metadata, and its job is over.
C30_MetadataBeforeDownload ==
    \A t \in TaskIds :
       /\ (HasRecord(t) /\ tasks[t].progress \in {"downloading", "converting", "ready"})
             => tasks[t].videoInfo # NoInfo
       /\ (HasRecord(t) /\ pc[t] \in DownloadPcs \cup ConvertPcs)
             => tasks[t].videoInfo # NoInfo
       /\ (HasRecord(t)
           /\ tasks[t].message = TaskMsg("x_error", Msg("could_not_extract", "")))
             => /\ tasks[t].status = "error"
                /\ tasks[t].progress = "extracting"
                /\ tasks[t].videoInfo = NoInfo
                /\ pc[t] = "done"

C30_Witness ==
    \E t \in TaskIds :
       /\ tasks[t].message = TaskMsg("x_error", Msg("could_not_extract", ""))
       /\ tasks[t].status = "error"

\* ---- claims on one job under fair scheduling (LiveSpec)
\* C23: every started job whose record is not removed by cleanup_task
\* eventually brings its task to status ready or error, without any polling;
\* no task stays in processing forever.
C23_JobEnds ==
    \A t \in TaskIds :
       (pc[t] = "queued")
          ~> (~HasRecord(t) \/ tasks[t].status \in {"ready", "error"})

C23_Witness ==
    \E t \in TaskIds :
       pc[t] = "done" /\ HasRecord(t) /\ tasks[t].status = "ready"

\* the component download_video_task is in: 1 extract_info,
\* 2 extract_info_with_fallback, 3 download_video, 4 convert_to_hevc
PhaseRank(p) ==
    CASE p \in {"none", "queued"} -> 0
      [] p = "extract" -> 1
      [] p = "fallback" -> 2
      [] p \in DownloadPcs -> 3
      [] p \in ConvertPcs -> 4
      [] OTHER -> 5

\* the position of convert_to_hevc among its calls
ConvertRank(p) ==
    CASE p = "conv_probe" -> 1
      [] p = "conv_hevc" -> 2
      [] p = "conv_h264" -> 3
      [] p = "conv_copy" -> 4
      [] OTHER -> 5

\* C26: the job never goes back to a component it has left, so each of
\* extract_info, extract_info_with_fallback, download_video and
\* convert_to_hevc is called at most once per task and a failed phase is not
\* run again; a step that stays inside a component is the next attempt of its
\* own loop, and it leaves status processing and the progress label as it was.
C26_PhasesOnce ==
    [][\A t \in TaskIds :
         /\ PhaseRank(pc'[t]) >= PhaseRank(pc[t])
         /\ (pc[t] = "extract" /\ pc'[t] = "extract" /\ calls'[t] # calls[t])
               => retry_count'[t] = retry_count[t] + 1
         /\ (pc[t] = "fallback" /\ pc'[t] = "fallback" /\ calls'[t] # calls[t])
               => strategy'[t] = strategy[t] + 1
         /\ (pc[t] \in DownloadPcs /\ pc'[t] = "download" /\ calls'[t] # calls[t])
               => retry_count'[t] = retry_count[t] + 1
         /\ (pc[t] \in ConvertPcs /\ pc'[t] \in ConvertPcs /\ pc'[t] # pc[t])
               => ConvertRank(pc'[t]) > ConvertRank(pc[t])
         /\ (PhaseRank(pc[t]) \in 1..4 /\ PhaseRank(pc'[t]) = PhaseRank(pc[t])
             /\ HasRecord(t) /\ tasks'[t] # NoTask)
               => /\ tasks[t].status = "processing"
                  /\ tasks'[t].status = "processing"
                  /\ tasks'[t].progress = tasks[t].progress]_vars

\* an internal retry of extract_info has happened and the task is unchanged
C26_Witness ==
    \E t \in TaskIds :
       /\ pc[t] = "extract" /\ retry_count[t] > 0
       /\ HasRecord(t) /\ tasks[t].status = "processing"
       /\ tasks[t].progress = "extracting"

\* ---- claims on two concurrent jobs (PairSpec)
\* the job of task t has started and is not over
PairRunning(t) == pc[t] \notin {"none", "done", "crashed"}

\* the step is one of the job of task t: something of the job changes
PairStepped(t) ==
    \/ pc'[t] # pc[t] \/ calls'[t] # calls[t] \/ tasks'[t] # tasks[t]
    \/ temp'[t] # temp[t] \/ downloads'[t] # downloads[t]

\* C24 as stated: while two jobs are running, whatever delay or wait one of
\* them is in, the other, unless it is itself inside a delay, can take its
\* next step.
C24_Original ==
    \A t, u \in PairIds :
       (t # u /\ PairRunning(t) /\ PairRunning(u) /\ loop # u)
          => ENABLED PairJobStep(u)

\* C25: every step of a job leaves the task record, the temp files and the
\* output file of the other job as they are.
C25_OwnRecordAndFiles ==
    [][\A t \in PairIds :
         PairStepped(t)
            => \A u \in PairIds \ {t} :
                  /\ tasks'[u] = tasks[u]
                  /\ temp'[u] = temp[u]
                  /\ downloads'[u] = downloads[u]]_vars

\* both jobs hold files at the same time
C25_Witness ==
    /\ pc[1] = "dl_validate" /\ temp[1] # EmptyDir
    /\ pc[2] = "conv_validate" /\ downloads[2] # Absent

\* an attempt of extract_info or of download_video of job t has failed
AttemptFailedStep(t) == ExtractFailedStep(t) \/ DownloadFailedStep(t)
\* extract_info or download_video of job t has returned
ComponentReturnedStep(t) ==
    \/ pc[t] = "extract" /\ pc'[t] = "download"
    \/ pc[t] = "dl_validate" /\ pc'[t] \in ConvertPcs

\* C27: the failure counter is that of the job. A failed attempt of
\* extract_info or download_video adds one to the counter of its own job, and
\* with it two seconds to the delay get_ydl_opts computes for that job; a
\* return of extract_info or download_video sets the counter of its own job
\* to 0; a job starts with 0; no step of a job changes the counter of the
\* other job.
C27_CounterPerJob ==
    [][\A t \in PairIds :
         PairStepped(t)
            => /\ \A u \in PairIds \ {t} : failed_attempts'[u] = failed_attempts[u]
               /\ AttemptFailedStep(t)
                     => /\ failed_attempts'[t] = failed_attempts[t] + 1
                        /\ BaseDelay(failed_attempts'[t]) = BaseDelay(failed_attempts[t]) + 2
               /\ ComponentReturnedStep(t) => failed_attempts'[t] = 0
               /\ pc[t] = "queued" => failed_attempts'[t] = 0]_vars

\* C27 as stated: a failed attempt of one job makes the delay of the other
\* job longer.
C27_Original ==
    [][\A t \in PairIds :
         (PairStepped(t) /\ AttemptFailedStep(t))
            => \A u \in PairIds \ {t} :
                  BaseDelay(failed_attempts'[u]) > BaseDelay(failed_attempts[u])]_vars

\* both jobs are running, one has counted failures, the other has none
C27_Witness ==
    /\ pc[1] = "download" /\ failed_attempts[1] = 2
    /\ pc[2] = "extract" /\ failed_attempts[2] = 0

\* cookies.txt exists and is not empty
CookieFileUsable == cookies_file.state # "absent" /\ FileNonEmpty(cookies_file)

\* C28: get_ydl_opts never sets both cookie options. The first attempt of
\* extract_info and of download_video uses the browser store when a browser
\* was detected; a retry never uses the browser store; an attempt that does
\* not use the browser store uses cookies.txt when it exists and is not
\* empty, and no credentials otherwise.
C28_CredentialByAttempt ==
    \A t \in PairIds :
       /\ ~(ydl_opts[t].cookiesfrombrowser /\ ydl_opts[t].cookiefile)
       /\ pc[t] \in {"extract", "download"}
             => /\ ydl_opts[t].cookiesfrombrowser
                      <=> (retry_count[t] = 0 /\ detected_browsers)
                /\ ydl_opts[t].cookiefile
                      <=> (~ydl_opts[t].cookiesfrombrowser /\ CookieFileUsable)

\* C28 as stated: every attempt, first or retry, uses the browser store when
\* a browser was detected.
C28_Original ==
    \A t \in PairIds :
       pc[t] \in {"extract", "download"}
          => /\ ydl_opts[t].cookiesfrombrowser <=> detected_browsers
             /\ ydl_opts[t].cookiefile <=> (~detected_browsers /\ CookieFileUsable)

\* a retry with a detected browser uses cookies.txt
C28_Witness ==
    \E t \in PairIds :
       /\ pc[t] = "download" /\ retry_count[t] > 0 /\ detected_browsers
       /\ ydl_opts[t].cookiefile

\* ---- claims on validate_cookies_file (CookieSpec)
\* line i of cookies.txt without the blank fields at its two ends
Trimmed(i) ==
    LET line == cookies_file.lines[i]
        filled == {k \in 1..Len(line) : line[k] # BlankField}
    IN IF filled = {} THEN << >>
       ELSE SubSeq(line, CHOOSE k \in filled : \A j \in filled : k <= j,
                         CHOOSE k \in filled : \A j \in filled : k >= j)
LineNumbers == 1..Len(cookies_file.lines)
\* a line shaped like a record: not blank, not a comment, 6 fields or more
RecordShaped(l) == l # << >> /\ l[1] \notin HashFields /\ Len(l) >= RecordFields
SiteRecord(l) == RecordShaped(l) /\ l[1] \in SiteFields

\* C29: validate_cookies_file returns valid exactly when cookies.txt can be
\* read and one of its lines, taken without the white space at its two ends,
\* is not a comment, has 6 or more tab-separated fields and names the site in
\* the first of them; otherwise it returns not valid with the reason: file
\* not found, failed to read, empty, no record-shaped line, no site record.
C29_ValidIffSiteRecord ==
    log # << >>
       => LET r == log[1].o
              readable == cookies_file.state = "readable"
              blank == \A i \in LineNumbers : Trimmed(i) = << >>
              shaped == \E i \in LineNumbers : RecordShaped(Trimmed(i))
              site == \E i \in LineNumbers : SiteRecord(Trimmed(i))
          IN /\ r.valid <=> (readable /\ site)
             /\ r.valid <=> (r.error = "")
             /\ cookies_file.state = "absent" => r.error = "file not found"
             /\ cookies_file.state = "unreadable" => r.error = "failed to read"
             /\ (readable /\ blank) => r.error = "is empty"
             /\ (readable /\ ~blank /\ ~shaped) => r.error = "no valid cookie entries"
             /\ (readable /\ shaped /\ ~site) => r.error = "no youtube cookies"

\* C29 as stated: valid exactly when the file exists, is not empty and has a
\* non-comment line with 6 or more tab-separated fields whose first field
\* names the site.
C29_Original ==
    log # << >>
       => (log[1].o.valid
             <=> /\ cookies_file.state # "absent"
                 /\ cookies_file.lines # << >>
                 /\ \E i \in LineNumbers :
                       SiteRecord(cookies_file.lines[i]))

\* a file whose only record starts with a tab was found valid
C29_Witness ==
    /\ log # << >> /\ log[1].o.valid
    /\ Len(cookies_file.lines) = 2
    /\ \A i \in LineNumbers :
          RecordShaped(Trimmed(i)) => cookies_file.lines[i][1] = BlankField

\* ---- claims on what the client observes (Spec)
\* C32 as stated: download_file returns a file only for a task whose status
\* is ready.
C32_Original ==
    \A t \in TaskIds :
       download_file(t) = "file" => (HasRecord(t) /\ tasks[t].status = "ready")

\* C33 as stated: a task in error whose progress is converting has no output
\* file.
C33_Original ==
    \A t \in TaskIds :
       (HasRecord(t) /\ tasks[t].status = "error"
        /\ tasks[t].progress = "converting")
          => downloads[t] = Absent

\* the error messages of each phase of the job
ExtractionFailureMessages ==
    {TaskMsg(tpl, NoMsg) : tpl \in {"x_blocking_access", "x_access_forbidden",
                                    "x_video_not_found", "x_multiple_attempts_failed"}}
    \cup {TaskMsg("x_error", Msg("could_not_extract", ""))}
DownloadFailureMessages ==
    {TaskMsg(tpl, NoMsg) : tpl \in {"x_blocking_download", "x_download_forbidden",
                                    "x_not_found_during_download", "x_private_video",
                                    "x_download_failed_after_attempts"}}
    \cup {TaskMsg("x_error", Msg("download_no_file_created", ""))}
FailedPhaseLabel(m) ==
    IF m \in ExtractionFailureMessages \/ m.tpl = "x_extraction_failed"
    THEN "extracting"
    ELSE IF m \in DownloadFailureMessages \/ m.tpl = "x_download_failed"
    THEN "downloading"
    ELSE "converting"

\* C35: a task a poll can see has status ready exactly when its progress is
\* ready and exactly when its filename is set, and a task in error shows the
\* progress label of the phase its error message comes from.
C35_ReadyIffFilename ==
    \A t \in TaskIds :
       HasRecord(t)
          => /\ (tasks[t].status = "ready") <=> (tasks[t].progress = "ready")
             /\ (tasks[t].status = "ready") <=> (tasks[t].filename # 0)
             /\ tasks[t].status = "error"
                   => tasks[t].progress = FailedPhaseLabel(tasks[t].message)

C35_Witness ==
    \E t \in TaskIds :
       /\ tasks[t].status = "error" /\ tasks[t].progress = "downloading"
       /\ tasks[t].filename = 0

\* C36: a task has status error exactly when its message starts with the
\* error marker.
C36_ErrorIffMarker ==
    \A t \in TaskIds :
       HasRecord(t)
          => ((tasks[t].status = "error") <=> StartsWithCross(tasks[t].message))

\* the failure that follows the warning about the HEVC encoder: only after
\* that warning is the missing output found while the record exists
C36_Witness ==
    \E t \in TaskIds :
       /\ tasks[t].status = "error"
       /\ tasks[t].message = TaskMsg("x_error", Msg("no_output_file_created", ""))

\* ---- claims on the retry loops (Spec)
MaxRetriesTemplates == {"x_multiple_attempts_failed", "x_download_failed_after_attempts"}
\* the step in which the job of task t shows one of the two messages
MaxRetriesShown(t) ==
    /\ tasks'[t].message.tpl \in MaxRetriesTemplates
    /\ tasks[t].message.tpl \notin MaxRetriesTemplates
\* the capability raised an error whose own text holds the phrase
NamesMaxRetries(o) ==
    /\ o.kind \in {"dlerror", "exception"}
    /\ Contains(Msg("bare", o.raw), "max retries exceeded")
\* the step of job t is the one the outcome o of its capability call leads to
StepOn(t, o) ==
    \/ /\ pc[t] = "extract"
       /\ Commit(t, ExtractAttemptFailed(Local(t), ExtractClassify(o)))
    \/ /\ pc[t] = "fallback"
       /\ Commit(t, StrategyDone(Local(t), o))
    \/ /\ pc[t] = "download"
       /\ \E written \in PartialWrites :
             Commit(t, DownloadReturned(Local(t), o, written, NoFile))

\* C34 as stated: the messages of the 'max retries exceeded' branches of the
\* orchestrator are never shown.
C34_Original ==
    \A t \in TaskIds : tasks[t].message.tpl \notin MaxRetriesTemplates

\* C34: the error a retry loop ends with is the one of its failing attempt,
\* never the trailing 'Max retries exceeded': a step that shows one of the
\* two 'max retries exceeded' messages is the step of a capability call that
\* raised an error whose own text holds that phrase.
C34_OnlyAttemptErrors ==
    [][\A t \in TaskIds :
          MaxRetriesShown(t)
             => \E o \in ExtractOutcomes \cup DownloadOutcomes :
                   NamesMaxRetries(o) /\ StepOn(t, o)]_vars

\* the extraction loop left after its last attempt, with the error of that
\* attempt
C34_Witness ==
    \E t \in TaskIds :
       /\ retry_count[t] = ExtractMaxRetries
       /\ tasks[t].status = "error"
       /\ tasks[t].message = TaskMsg("x_extraction_failed", Msg("rate_limited", ""))

\* ---- claims on the rename hint (LiveSpec)
\* the file names of the tasks are those of their ids
FileNamesById ==
    \A t \in TaskIds :
       HasRecord(t)
          => /\ tasks[t].filename \in {0, t}
             /\ tasks[t].status = "ready"
                   => (tasks[t].filename = t /\ downloads[t] > 0)

\* C31: whatever rename hint the request gave, no step changes the hint, the
\* filename of a task is unset or names {taskId}.mkv, and a ready task has the
\* filename {taskId}.mkv and its artifact at downloads/{taskId}.mkv.
C31_RenameIgnored ==
    /\ [](rename[ScenarioTask] \in RenameHints /\ FileNamesById)
    /\ [][rename' = rename]_vars

C31_Witness ==
    /\ rename[ScenarioTask] = MaxTasks + 1
    /\ tasks[ScenarioTask].status = "ready"
    /\ tasks[ScenarioTask].filename = ScenarioTask

====
